---- MODULE Spec2Model ----
(***************************************************************************)
(* TransportDecoratorRegistry (src/src/TransportDecoratorRegistry.js).     *)
(*                                                                         *)
(* The registry owns three maps: decorators (name -> plugin instance),     *)
(* rules (identifier -> rule array) and decorations (identifier ->         *)
(* compiled decoration function).  loadDecorators and loadRules fill them, *)
(* decorate wraps a transport class so that write runs the decoration      *)
(* before the original write.                                              *)
(*                                                                         *)
(* The source file holds two definitions of the class.  Their loaders are  *)
(* line for line the same (the second keeps no decorations map), so one    *)
(* registry state serves both; they differ in decorate, which is modelled  *)
(* once per definition (decorate and decorateFromRules).                   *)
(*                                                                         *)
(* Plugin classes, the module loader and the transport's own write are     *)
(* outside the source; a plugin's decorate is kept uninterpreted: it       *)
(* appends to the message the record of the call it received.              *)
(***************************************************************************)
EXTENDS Integers, Sequences, FiniteSets, TLC

VARIABLES
    decorators,   \* this.decorators : name -> instance (index into instances)
    rules,        \* this.rules : identifier -> rule array
    decorations,  \* this.decorations : identifier -> compiled decorateMessage
    instances,    \* the plugin objects loadDecorators configured, in creation order
    wrapped,      \* transport class -> the class decorate last returned for it
    observed,     \* the calls the observed transport's writes made, in order
    last          \* the most recent call: its arguments and its outcome

vars == <<decorators, rules, decorations, instances, wrapped, observed, last>>

---------------------------------------------------------------------------
(* Bounds of the exploration *)

MaxInstances == 2   \* plugin objects configured over a run
MaxRules == 2       \* longest rule array given to loadRules
MaxWrites == 2      \* writes on the observed transport over a run

---------------------------------------------------------------------------
(* JavaScript values *)

Undefined == "undefined"     \* an absent property or argument
EmptyObject == "{}"          \* the literal {}
NonString == "<number>"      \* a 'require' whose typeof is not "string"
EmptyString == ""

Names == {"upper", "trim"}
Identifiers == {"console", "file"}
PluginConfigs == {Undefined, "c1"}
RawMessages == {"hello"}
CallOptions == {Undefined, "o1"}

\* An empty Map
EmptyMap == [k \in {} |-> Undefined]

\* Map.prototype.set
MapSet(m, k, v) == [x \in DOMAIN m \cup {k} |-> IF x = k THEN v ELSE m[x]]

\* `x || {}`
OrEmptyObject(x) == IF x = Undefined THEN EmptyObject ELSE x

NoError == [type |-> "none", message |-> "", names |-> {}]

SeqsUpTo(S, n) == UNION {[1..m -> S] : m \in 0..n}

---------------------------------------------------------------------------
(* loadDecorators *)

\* The constructors the three forms of 'require' resolve to (relative path,
\* bare package, package.export), by the methods their instances have.
Constructor(req) ==
    CASE req = "./Decorator"        -> [decorate |-> TRUE,  configure |-> TRUE]
      [] req = "nodecorate"         -> [decorate |-> FALSE, configure |-> TRUE]
      [] req = "bundle.NoConfigure" -> [decorate |-> TRUE,  configure |-> FALSE]

GoodRequires == {"./Decorator"}
BadRequires == {Undefined, NonString, "nodecorate", "bundle.NoConfigure"}

\* A plugin's settings: { require, config }
GoodSettings == {[require |-> r, config |-> c] : r \in GoodRequires, c \in PluginConfigs}
BadSettings == {[require |-> r, config |-> Undefined] : r \in BadRequires}

\* Object.entries(config) of a plugin config object: its entries in order;
\* an object has each key once.
PluginEntries(settings) == {[name |-> n, settings |-> s] : n \in Names, s \in settings}

ConfigsOfOne(entries) == {<<e>> : e \in entries}
ConfigsOfTwo(entries) == {p \in entries \X entries : p[1].name # p[2].name}

\* `new decorator()`
NewInstance(req) ==
    [class |-> req, name |-> Undefined, configured |-> <<>>]

\* instance.name = name
TagInstance(inst, name) == [inst EXCEPT !.name = name]

\* ConfigureInstance with the configure call left out
ConfigureSkipped(inst, sourceConfig) == inst

\* instance.configure(sourceConfig)
ConfigureInstance(inst, sourceConfig) ==
    [inst EXCEPT !.configured = Append(@, sourceConfig)]

\* StoreDecorator keeping the entry a name already has
StoreDecoratorOnce(decs, name, i) ==
    IF name \in DOMAIN decs THEN decs ELSE MapSet(decs, name, i)

\* this.decorators.set(name, instance), the instance being the i-th created
StoreDecorator(decs, name, i) == MapSet(decs, name, i)

\* CapabilityError without the check for configure
CapabilityErrorDecorateOnly(class, name) ==
    IF ~class.decorate
    THEN [type |-> "Error", message |-> "requires a 'decorate' method", names |-> {name}]
    ELSE NoError

\* The two `in` checks on the new instance: the error of the first method
\* the class lacks, NoError when it has both.
CapabilityError(class, name) ==
    IF ~class.decorate
    THEN [type |-> "Error", message |-> "requires a 'decorate' method", names |-> {name}]
    ELSE IF ~class.configure
    THEN [type |-> "Error", message |-> "requires a 'configure' method", names |-> {name}]
    ELSE NoError

\* The two checks of settings.require: the error thrown, NoError when it is
\* a string.
RequireError(settings, name) ==
    IF settings.require = Undefined
    THEN [type |-> "Error", message |-> "does not specify a 'require'", names |-> {name}]
    ELSE IF settings.require = NonString
    THEN [type |-> "TypeError", message |-> "has an invalid 'require'", names |-> {name}]
    ELSE NoError

\* A throw out of the loop of loadDecorators at entry k: the map and the
\* instances stay as the entries before k left them.
DecoratorsThrown(decs, insts, err, k, made) ==
    [decorators |-> decs, instances |-> insts, error |-> err, at |-> k,
     discarded |-> made]

\* The loop of loadDecorators from entry k on.  The result carries the map
\* and the configured instances as the call leaves them, the error thrown
\* (NoError when the loop ends), the index of the entry that threw and the
\* instance that entry created before it threw.
RECURSIVE loadDecoratorsFrom(_, _, _, _)
loadDecoratorsFrom(config, k, decs, insts) ==
    IF k > Len(config)
    THEN [decorators |-> decs, instances |-> insts, error |-> NoError, at |-> 0,
          discarded |-> <<>>]
    ELSE
      LET name == config[k].name
          settings == config[k].settings
      IN
      IF RequireError(settings, name) # NoError
      THEN DecoratorsThrown(decs, insts, RequireError(settings, name), k, <<>>)
      ELSE
        LET sourceConfig == OrEmptyObject(settings.config)
            instance == NewInstance(settings.require)
            missing == CapabilityError(Constructor(settings.require), name)
        IN
        IF missing # NoError
        THEN DecoratorsThrown(decs, insts, missing, k, <<instance>>)
        ELSE
          loadDecoratorsFrom(config, k + 1,
              StoreDecorator(decs, name, Len(insts) + 1),
              Append(insts, ConfigureInstance(TagInstance(instance, name), sourceConfig)))

loadDecorators(config) ==
    LET run == loadDecoratorsFrom(config, 1, decorators, instances) IN
    /\ Len(run.instances) <= MaxInstances
    /\ decorators' = run.decorators
    /\ instances' = run.instances
    /\ last' = [op |-> "loadDecorators", config |-> config, error |-> run.error,
                at |-> run.at, discarded |-> run.discarded]
    /\ UNCHANGED <<rules, decorations, wrapped, observed>>

---------------------------------------------------------------------------
(* loadRules *)

\* A rule as written in the rule config: { decorator, config }
RulesOver(names, configs) == {[decorator |-> d, config |-> c] : d \in names, c \in configs}

\* The value given for an identifier: an array of rules, or something for
\* which Array.isArray is false.
ArraysOf(ruleSet, n) == {[isArray |-> TRUE, items |-> rs] : rs \in SeqsUpTo(ruleSet, n)}
NotAnArray == [isArray |-> FALSE, items |-> <<>>]

\* Object.entries(config) of a rule config object
RuleEntries(identifiers, values) ==
    {[identifier |-> i, rules |-> v] : i \in identifiers, v \in values}

RuleConfigsOfOne(entries) == {<<e>> : e \in entries}
RuleConfigsOfTwo(entries) == {p \in entries \X entries : p[1].identifier # p[2].identifier}

\* A message as a plugin sees it: the caller's payload and, in order, the
\* decorate calls it has been through.
Message(raw) == [raw |-> raw, applied |-> <<>>]

\* instance.decorate(message, config, options) of the i-th instance
PluginDecorate(i, message, config, options) ==
    [message EXCEPT !.applied =
        Append(@, [plugin |-> i, config |-> config, options |-> options])]

\* getDecorator(name): the instance stored under the name, 0 for undefined
getDecorator(decs, name) == IF name \in DOMAIN decs THEN decs[name] ELSE 0

\* rules.map(({ decorator, config }) => (message, options) => ...): each
\* function keeps its rule's decorator name and config.
decoratorFunctions(ruleArray) ==
    [i \in 1..Len(ruleArray) |->
        [decorator |-> ruleArray[i].decorator, config |-> ruleArray[i].config]]

\* CallDecoratorFunction bound to the instance first created under the
\* rule's name, whatever the map holds at the call
CallFirstRegistered(fn, decs, message, options) ==
    LET made == {i \in 1..Len(instances) : instances[i].name = fn.decorator}
        first == CHOOSE i \in made : \A j \in made : i <= j
    IN [message |-> PluginDecorate(first, message, OrEmptyObject(fn.config), options),
        error |-> NoError]

\* One compiled function called: this.getDecorator(decorator).decorate(
\* message, config || {}, options), on the registry as it is at the call.
CallDecoratorFunction(fn, decs, message, options) ==
    LET i == getDecorator(decs, fn.decorator) IN
    IF i = 0
    THEN [message |-> message,
          error |-> [type |-> "TypeError", message |-> "decorate of undefined",
                     names |-> {fn.decorator}]]
    ELSE [message |-> PluginDecorate(i, message, OrEmptyObject(fn.config), options),
          error |-> NoError]

\* ReduceFrom as reduceRight would do it: the last function first
RECURSIVE ReduceRightFrom(_, _, _, _, _)
ReduceRightFrom(fns, k, decs, acc, options) ==
    IF k > Len(fns) THEN [message |-> acc, error |-> NoError]
    ELSE LET r == CallDecoratorFunction(fns[Len(fns) - k + 1], decs, acc, options) IN
         IF r.error # NoError THEN r
         ELSE ReduceRightFrom(fns, k + 1, decs, r.message, options)

\* fns.reduce((acc, decorator) => decorator(acc, options), message), from
\* the k-th function on
RECURSIVE ReduceFrom(_, _, _, _, _)
ReduceFrom(fns, k, decs, acc, options) ==
    IF k > Len(fns) THEN [message |-> acc, error |-> NoError]
    ELSE LET r == CallDecoratorFunction(fns[k], decs, acc, options) IN
         IF r.error # NoError THEN r
         ELSE ReduceFrom(fns, k + 1, decs, r.message, options)

\* decorateMessage without the default of its options parameter
decorateMessageNoDefault(fns, decs, message, options) ==
    ReduceFrom(fns, 1, decs, message, options)

\* decorateMessage = (message, options = {}) => decoratorFunctions.reduce(...)
decorateMessage(fns, decs, message, options) ==
    ReduceFrom(fns, 1, decs, message,
               IF options = Undefined THEN EmptyObject ELSE options)

\* ValidateRulesFrom without the check that the decorator is stored
RECURSIVE ValidateNamesOnly(_, _, _, _)
ValidateNamesOnly(identifier, ruleArray, k, decs) ==
    IF k > Len(ruleArray) THEN NoError
    ELSE IF ruleArray[k].decorator \in {Undefined, EmptyString}
    THEN [type |-> "Error", message |-> "does not specify a decorator",
          names |-> {identifier}]
    ELSE ValidateNamesOnly(identifier, ruleArray, k + 1, decs)

\* ValidateRulesFrom looking at the first rule only
ValidateFirstRuleOnly(identifier, ruleArray, k, decs) ==
    IF Len(ruleArray) = 0 THEN NoError
    ELSE IF ruleArray[1].decorator \in {Undefined, EmptyString}
    THEN [type |-> "Error", message |-> "does not specify a decorator",
          names |-> {identifier}]
    ELSE IF ruleArray[1].decorator \notin DOMAIN decs
    THEN [type |-> "Error", message |-> "specifies a non-existent decorator",
          names |-> {identifier, ruleArray[1].decorator}]
    ELSE NoError

\* The validation loop over one rule array from rule k on: the first error,
\* or NoError.
RECURSIVE ValidateRulesFrom(_, _, _, _)
ValidateRulesFrom(identifier, ruleArray, k, decs) ==
    IF k > Len(ruleArray) THEN NoError
    ELSE
      LET decorator == ruleArray[k].decorator IN
      IF decorator \in {Undefined, EmptyString}
      THEN [type |-> "Error", message |-> "does not specify a decorator",
            names |-> {identifier}]
      ELSE IF decorator \notin DOMAIN decs
      THEN [type |-> "Error", message |-> "specifies a non-existent decorator",
            names |-> {identifier, decorator}]
      ELSE ValidateRulesFrom(identifier, ruleArray, k + 1, decs)

\* StoreRules keeping the array an identifier already has
StoreRulesOnce(rls, identifier, ruleArray) ==
    IF identifier \in DOMAIN rls THEN rls ELSE MapSet(rls, identifier, ruleArray)

\* this.rules.set(identifier, rules)
StoreRules(rls, identifier, ruleArray) == MapSet(rls, identifier, ruleArray)

\* StoreDecoration keeping the function an identifier already has
StoreDecorationOnce(dtns, identifier, fns) ==
    IF identifier \in DOMAIN dtns THEN dtns ELSE MapSet(dtns, identifier, fns)

\* this.decorations.set(identifier, decorateMessage)
StoreDecoration(dtns, identifier, fns) == MapSet(dtns, identifier, fns)

\* RulesThrown undoing the entries before k: the maps as the call found them
RulesThrownRolledBack(rls, dtns, err, k) ==
    [rules |-> rules, decorations |-> decorations, error |-> err, at |-> k]

\* A throw out of the loop of loadRules at entry k: the maps stay as the
\* entries before k left them.
RulesThrown(rls, dtns, err, k) ==
    [rules |-> rls, decorations |-> dtns, error |-> err, at |-> k]

NotAnArrayError(identifier) ==
    [type |-> "Error", message |-> "must be an array", names |-> {identifier}]

\* loadRulesFrom storing each rule as soon as it has passed its own checks:
\* an array that fails at rule j leaves the j-1 rules before it stored
RECURSIVE loadRulesStoringAsChecked(_, _, _, _, _)
loadRulesStoringAsChecked(config, k, decs, rls, dtns) ==
    IF k > Len(config)
    THEN [rules |-> rls, decorations |-> dtns, error |-> NoError, at |-> 0]
    ELSE
      LET identifier == config[k].identifier
          value == config[k].rules
      IN
      IF ~value.isArray
      THEN RulesThrown(rls, dtns, NotAnArrayError(identifier), k)
      ELSE
        LET err == ValidateRulesFrom(identifier, value.items, 1, decs)
            j == CHOOSE n \in 0..Len(value.items) :
                    /\ ValidateRulesFrom(identifier, SubSeq(value.items, 1, n), 1, decs)
                          = NoError
                    /\ n < Len(value.items) =>
                          ValidateRulesFrom(identifier, SubSeq(value.items, 1, n + 1), 1, decs)
                            # NoError
            passed == SubSeq(value.items, 1, j)
        IN
        IF err # NoError
        THEN RulesThrown(StoreRules(rls, identifier, passed),
                         StoreDecoration(dtns, identifier, decoratorFunctions(passed)),
                         err, k)
        ELSE loadRulesStoringAsChecked(config, k + 1, decs,
                 StoreRules(rls, identifier, value.items),
                 StoreDecoration(dtns, identifier, decoratorFunctions(value.items)))

\* The loop of loadRules from entry k on.
RECURSIVE loadRulesFrom(_, _, _, _, _)
loadRulesFrom(config, k, decs, rls, dtns) ==
    IF k > Len(config)
    THEN [rules |-> rls, decorations |-> dtns, error |-> NoError, at |-> 0]
    ELSE
      LET identifier == config[k].identifier
          value == config[k].rules
      IN
      IF ~value.isArray
      THEN RulesThrown(rls, dtns, NotAnArrayError(identifier), k)
      ELSE
        LET err == ValidateRulesFrom(identifier, value.items, 1, decs) IN
        IF err # NoError THEN RulesThrown(rls, dtns, err, k)
        ELSE loadRulesFrom(config, k + 1, decs,
                 StoreRules(rls, identifier, value.items),
                 StoreDecoration(dtns, identifier, decoratorFunctions(value.items)))

loadRules(config) ==
    LET run == loadRulesFrom(config, 1, decorators, rules, decorations) IN
    /\ rules' = run.rules
    /\ decorations' = run.decorations
    /\ last' = [op |-> "loadRules", config |-> config, error |-> run.error,
                at |-> run.at]
    /\ UNCHANGED <<decorators, instances, wrapped, observed>>

---------------------------------------------------------------------------
(* Accessors *)

getRules(rls, identifier) == IF identifier \in DOMAIN rls THEN rls[identifier] ELSE <<>>

\* getDecoration(identifier): <<f>> for the stored function f, <<>> for
\* undefined
getDecoration(dtns, identifier) ==
    IF identifier \in DOMAIN dtns THEN <<dtns[identifier]>> ELSE <<>>

\* A call of getDecorator(name)
getDecoratorCall(name) ==
    /\ last' = [op |-> "getDecorator", name |-> name,
                returned |-> getDecorator(decorators, name)]
    /\ UNCHANGED <<decorators, rules, decorations, instances, wrapped, observed>>

\* getRulesCall storing the empty array it returns for an identifier
\* without rules
getRulesCallStoring(identifier) ==
    /\ last' = [op |-> "getRules", identifier |-> identifier,
                returned |-> getRules(rules, identifier)]
    /\ rules' = MapSet(rules, identifier, getRules(rules, identifier))
    /\ UNCHANGED <<decorators, decorations, instances, wrapped, observed>>

\* A call of getRules(identifier)
getRulesCall(identifier) ==
    /\ last' = [op |-> "getRules", identifier |-> identifier,
                returned |-> getRules(rules, identifier)]
    /\ UNCHANGED <<decorators, rules, decorations, instances, wrapped, observed>>

\* A call of getDecoration(identifier)
getDecorationCall(identifier) ==
    /\ last' = [op |-> "getDecoration", identifier |-> identifier,
                returned |-> getDecoration(decorations, identifier)]
    /\ UNCHANGED <<decorators, rules, decorations, instances, wrapped, observed>>

---------------------------------------------------------------------------
(* decorate and the wrapped class's write *)

\* The transport classes given to decorate, by what their static
\* `identifier` getter returns.
TransportClasses == {"Console", "File", "Anonymous", "Blank"}

IdentifierOf(streamConstructor) ==
    CASE streamConstructor = "Console"   -> "console"
      [] streamConstructor = "File"      -> "file"
      [] streamConstructor = "Anonymous" -> Undefined
      [] streamConstructor = "Blank"     -> EmptyString
      [] streamConstructor = "Memory"    -> "memory"

\* The transport class whose original write, and whose plugins' decorate
\* calls, are watched from outside.
ObservedClasses == {"Memory"}

NoIdentifierError ==
    [type |-> "Error", message |-> "must define a 'identifier' getter", names |-> {}]

NoDecorationError(identifier) ==
    [type |-> "Error", message |-> "No TransportDecorations are defined",
     names |-> {identifier}]

\* decorateResult taking a decoration compiled from no rule for none
decorateResultNonEmpty(streamConstructor, dtns) ==
    LET identifier == IdentifierOf(streamConstructor) IN
    IF identifier \in {Undefined, EmptyString}
    THEN [error |-> NoIdentifierError, returned |-> <<>>]
    ELSE IF getDecoration(dtns, identifier) \in {<<>>, << <<>> >>}
    THEN [error |-> NoDecorationError(identifier), returned |-> <<>>]
    ELSE [error |-> NoError,
          returned |-> <<[identifier |-> identifier, definition |-> 1,
                          decoration |-> getDecoration(dtns, identifier)[1]]>>]

\* decorate as the first definition has it.  The result: the error thrown,
\* or the class returned, which keeps the decoration found at this call.
decorateResult(streamConstructor, dtns) ==
    LET identifier == IdentifierOf(streamConstructor) IN
    IF identifier \in {Undefined, EmptyString}
    THEN [error |-> NoIdentifierError, returned |-> <<>>]
    ELSE IF getDecoration(dtns, identifier) = <<>>
    THEN [error |-> NoDecorationError(identifier), returned |-> <<>>]
    ELSE [error |-> NoError,
          returned |-> <<[identifier |-> identifier, definition |-> 1,
                          decoration |-> getDecoration(dtns, identifier)[1]]>>]

\* decorate as the second definition has it: the class keeps the functions
\* mapped from getRules(identifier) at this call, none when the identifier
\* has no rules.
decorateFromRulesResult(streamConstructor, rls) ==
    LET identifier == IdentifierOf(streamConstructor) IN
    IF identifier \in {Undefined, EmptyString}
    THEN [error |-> NoIdentifierError, returned |-> <<>>]
    ELSE [error |-> NoError,
          returned |-> <<[identifier |-> identifier, definition |-> 2,
                          decoration |-> decoratorFunctions(getRules(rls, identifier))]>>]

\* The caller keeps the class a decorate call returned for the transport
\* class it gave.
KeepReturned(classes, streamConstructor, result) ==
    IF result.error = NoError
    THEN MapSet(classes, streamConstructor, result.returned[1])
    ELSE classes

decorate(streamConstructor) ==
    LET result == decorateResult(streamConstructor, decorations) IN
    /\ wrapped' = KeepReturned(wrapped, streamConstructor, result)
    /\ last' = [op |-> "decorate", definition |-> 1,
                streamConstructor |-> streamConstructor,
                error |-> result.error, returned |-> result.returned]
    /\ UNCHANGED <<decorators, rules, decorations, instances, observed>>

decorateFromRules(streamConstructor) ==
    LET result == decorateFromRulesResult(streamConstructor, rules) IN
    /\ wrapped' = KeepReturned(wrapped, streamConstructor, result)
    /\ last' = [op |-> "decorate", definition |-> 2,
                streamConstructor |-> streamConstructor,
                error |-> result.error, returned |-> result.returned]
    /\ UNCHANGED <<decorators, rules, decorations, instances, observed>>

\* The decorate calls a decoration made, in order, as the message it
\* returned carries them
DecorateCalls(message) ==
    [i \in 1..Len(message.applied) |->
        [kind |-> "decorate", raw |-> message.raw, call |-> message.applied[i]]]

\* super.write(message, options) as a call
SuperWriteCall(message, options) ==
    [kind |-> "write", message |-> message, options |-> options]

\* writeResult with super.write called twice
writeResultTwice(w, decs, message, options) ==
    LET run == decorateMessage(w.decoration, decs, message, options)
        call == [message |-> run.message, options |-> options]
    IN [error |-> NoError, forwarded |-> <<call, call>>,
        calls |-> DecorateCalls(run.message)
                    \o <<SuperWriteCall(run.message, options),
                         SuperWriteCall(run.message, options)>>]

\* writeResult with the decorated message dropped: super.write gets the
\* message write was called with
writeResultUndecorated(w, decs, message, options) ==
    [error |-> NoError, forwarded |-> <<[message |-> message, options |-> options]>>,
     calls |-> <<SuperWriteCall(message, options)>>]

\* writeResult looking the decoration up in the registry at each write
\* instead of running the one the class keeps
writeResultLookedUp(w, decs, message, options) ==
    LET fns == IF w.identifier \in DOMAIN decorations
               THEN decorations[w.identifier]
               ELSE w.decoration
        run == decorateMessage(fns, decs, message, options)
    IN [error |-> NoError,
        forwarded |-> <<[message |-> run.message, options |-> options]>>,
        calls |-> DecorateCalls(run.message)
                    \o <<SuperWriteCall(run.message, options)>>]

\* write(message, options) of a wrapped class: the decoration, then
\* super.write.  The first definition calls the kept decoration with
\* (message, options); the second reduces its kept functions, which call
\* decorate(message, config || {}).  The result: the error thrown, what
\* the original write received, and the calls made, in order.
writeResult(w, decs, message, options) ==
    LET run == IF w.definition = 1
               THEN decorateMessage(w.decoration, decs, message, options)
               ELSE ReduceFrom(w.decoration, 1, decs, message, Undefined)
    IN
    IF run.error # NoError
    THEN [error |-> run.error, forwarded |-> <<>>,
          calls |-> DecorateCalls(run.message)]
    ELSE [error |-> NoError,
          forwarded |-> <<[message |-> run.message, options |-> options]>>,
          calls |-> DecorateCalls(run.message)
                      \o <<SuperWriteCall(run.message, options)>>]

\* The original writes among the calls seen
Writes(seen) == Cardinality({i \in 1..Len(seen) : seen[i].kind = "write"})

\* RecordCalls with a write's calls put ahead of the earlier writes' calls
RecordCallsReordered(seen, calls) == calls \o seen

\* The calls of one write follow, in the order they are made, every call of
\* the writes before it: write runs to its end before it returns.
RecordCalls(seen, calls) == seen \o calls

write(streamConstructor, raw, options) ==
    LET result == writeResult(wrapped[streamConstructor], decorators, Message(raw), options) IN
    /\ streamConstructor \in ObservedClasses => Writes(observed) < MaxWrites
    /\ observed' = IF streamConstructor \in ObservedClasses
                   THEN RecordCalls(observed, result.calls)
                   ELSE observed
    /\ last' = [op |-> "write", streamConstructor |-> streamConstructor,
                transport |-> wrapped[streamConstructor],
                message |-> Message(raw), options |-> options,
                error |-> result.error, forwarded |-> result.forwarded]
    /\ UNCHANGED <<decorators, rules, decorations, instances, wrapped>>

---------------------------------------------------------------------------
(* Specifications *)

Init ==
    /\ decorators = EmptyMap
    /\ rules = EmptyMap
    /\ decorations = EmptyMap
    /\ instances = <<>>
    /\ wrapped = EmptyMap
    /\ observed = <<>>
    /\ last = [op |-> "new", error |-> NoError]

\* The registry in use: "upper" loaded with a config and "trim" without,
\* alone or together; rule arrays for the console transport, "upper" ruled
\* with a config and "trim" without; transports wrapped and written to.
PlainEntries ==
    {[name |-> "upper", settings |-> [require |-> "./Decorator", config |-> "c1"]],
     [name |-> "trim", settings |-> [require |-> "./Decorator", config |-> Undefined]]}

PlainDecoratorConfigs == ConfigsOfOne(PlainEntries) \cup ConfigsOfTwo(PlainEntries)

PlainRules == {[decorator |-> "upper", config |-> "r1"],
               [decorator |-> "trim", config |-> Undefined]}

PlainRuleConfigs ==
    RuleConfigsOfOne(RuleEntries({"console"}, ArraysOf(PlainRules, MaxRules)))

Next ==
    \/ \E config \in PlainDecoratorConfigs : loadDecorators(config)
    \/ \E config \in PlainRuleConfigs : loadRules(config)
    \/ \E streamConstructor \in TransportClasses : decorate(streamConstructor)
    \/ \E streamConstructor \in TransportClasses : decorateFromRules(streamConstructor)
    \/ \E streamConstructor \in DOMAIN wrapped, raw \in RawMessages, options \in CallOptions :
           write(streamConstructor, raw, options)

Spec == Init /\ [][Next]_vars

\* The loaders given one or two entries a call, with every kind of settings
\* and, for each identifier, no rule or one.
AllDecoratorConfigs ==
    LET entries == PluginEntries({s \in GoodSettings : s.config = Undefined}
                                 \cup BadSettings)
    IN {<<>>} \cup ConfigsOfOne(entries) \cup ConfigsOfTwo(entries)

AllRules == RulesOver(Names \cup {Undefined}, {Undefined})

ShortRuleConfigs ==
    LET entries == RuleEntries(Identifiers, ArraysOf(AllRules, 1) \cup {NotAnArray})
    IN {<<>>} \cup RuleConfigsOfOne(entries) \cup RuleConfigsOfTwo(entries)

NextLoad ==
    \/ \E config \in AllDecoratorConfigs : loadDecorators(config)
    \/ \E config \in ShortRuleConfigs : loadRules(config)

SpecLoad == Init /\ [][NextLoad]_vars

\* loadRules given rule arrays of every length up to MaxRules for the console
\* transport and up to one rule for the file transport, rules with and
\* without a decorator name, over plugins loaded one at a time; the rules
\* and the decoration of each identifier looked up in between.
LongRuleConfigs ==
    RuleConfigsOfOne(
        RuleEntries({"console"}, ArraysOf(AllRules, MaxRules) \cup {NotAnArray})
        \cup RuleEntries({"file"}, ArraysOf(AllRules, 1) \cup {NotAnArray}))

NextRules ==
    \/ \E config \in ConfigsOfOne(PlainEntries) : loadDecorators(config)
    \/ \E config \in LongRuleConfigs : loadRules(config)
    \/ \E identifier \in Identifiers : getRulesCall(identifier)
    \/ \E identifier \in Identifiers : getDecorationCall(identifier)

SpecRules == Init /\ [][NextRules]_vars

\* Writes on the observed transport: both plugins loaded in one call, or
\* the first loaded by a call that throws at the second, one
\* rule or two for its identifier, reloaded at will, the class wrapped by
\* either definition and written to with two different messages, and the
\* accessors called for names and identifiers stored and not stored.
TracedMessages == {"m1", "m2"}

MemoryRuleConfigs ==
    RuleConfigsOfOne(RuleEntries({"memory"},
        {[isArray |-> TRUE, items |-> <<[decorator |-> "upper", config |-> "r1"]>>],
         [isArray |-> TRUE, items |-> <<[decorator |-> "trim", config |-> Undefined],
                                        [decorator |-> "upper", config |-> "r1"]>>]}))

WrittenClasses == ObservedClasses \cup {"Anonymous"}
LookedUp == {"memory", "file"}

\* "upper" well formed, then "trim" resolving to a class without decorate
BrokenSecond ==
    <<[name |-> "upper", settings |-> [require |-> "./Decorator", config |-> "c1"]],
      [name |-> "trim", settings |-> [require |-> "nodecorate", config |-> Undefined]]>>

\* "upper" and "trim", both well formed, in that order
LoadedTogether == {config \in ConfigsOfTwo(PlainEntries) : config[1].name = "upper"}

NextWrite ==
    \/ \E config \in LoadedTogether \cup {BrokenSecond} : loadDecorators(config)
    \/ \E config \in MemoryRuleConfigs : loadRules(config)
    \/ \E streamConstructor \in WrittenClasses : decorate(streamConstructor)
    \/ \E streamConstructor \in WrittenClasses : decorateFromRules(streamConstructor)
    \/ \E name \in Names : getDecoratorCall(name)
    \/ \E identifier \in LookedUp : getRulesCall(identifier)
    \/ \E identifier \in LookedUp : getDecorationCall(identifier)
    \/ \E streamConstructor \in DOMAIN wrapped, raw \in TracedMessages :
           write(streamConstructor, raw, "o1")

SpecWrite == Init /\ [][NextWrite]_vars

---------------------------------------------------------------------------
(* Properties *)

\* The entries a load call got through before it returned or threw
Processed(call) ==
    IF call.at = 0 THEN 1..Len(call.config) ELSE 1..(call.at - 1)

\* What configure is to receive for a plugin entry: its config, {} without one
ExpectedPluginConfig(entry) ==
    IF entry.settings.config = Undefined THEN EmptyObject ELSE entry.settings.config

\* What decorate is to receive as the config of a rule: its config, {} without one
ExpectedRuleConfig(rule) ==
    IF rule.config = Undefined THEN EmptyObject ELSE rule.config

\* C1: a loadDecorators call that returns leaves, for each entry, one new
\* instance stored under the entry's name, tagged with it and configured
\* exactly once with the entry's config ({} without one); an instance once
\* configured is never configured again, and no call other than
\* loadDecorators configures anything.
C1_ConfigureOncePerEntry ==
    [][ /\ \A i \in 1..Len(instances') : Len(instances'[i].configured) = 1
        /\ \A i \in 1..Len(instances) :
              i <= Len(instances') /\ instances'[i] = instances[i]
        /\ last'.op # "loadDecorators" => instances' = instances
        /\ (last'.op = "loadDecorators" /\ last'.error = NoError) =>
              /\ Len(instances') = Len(instances) + Len(last'.config)
              /\ \A k \in 1..Len(last'.config) :
                    LET entry == last'.config[k] IN
                    /\ entry.name \in DOMAIN decorators'
                    /\ getDecorator(decorators', entry.name) = Len(instances) + k
                    /\ instances'[Len(instances) + k].name = entry.name
                    /\ instances'[Len(instances) + k].configured
                           = <<ExpectedPluginConfig(entry)>>
      ]_vars

\* A call loaded two plugins, one with a config and one without.
C1_Witness ==
    /\ last.op = "loadDecorators"
    /\ last.error = NoError
    /\ Len(last.config) = 2
    /\ {last.config[1].settings.config, last.config[2].settings.config}
           = {Undefined, "c1"}
    /\ Len(instances) = 2

\* pn.decorate(... p1.decorate(m, cfg1, options) ..., cfgn, options) for the
\* first n of the rules, pi the instance stored under rule i's name
RECURSIVE Composed(_, _, _, _)
Composed(ruleArray, n, message, options) ==
    IF n = 0 THEN message
    ELSE PluginDecorate(decorators[ruleArray[n].decorator],
                        Composed(ruleArray, n - 1, message, options),
                        ExpectedRuleConfig(ruleArray[n]),
                        options)

\* C2: the decoration compiled from the rules [r1, ..., rn] gives, for the
\* message m a write hands it, pn.decorate(... p1.decorate(m, cfg1) ...,
\* cfgn): the first rule's plugin gets m, each next one the result before it.
C2_LeftToRight ==
    (last.op = "write" /\ last.transport.definition = 1) =>
        /\ Len(last.forwarded) = 1
        /\ last.forwarded[1].message
              = Composed(last.transport.decoration, Len(last.transport.decoration),
                         last.message,
                         IF last.options = Undefined THEN EmptyObject ELSE last.options)

\* A write went through a decoration of two rules naming different plugins.
C2_Witness ==
    /\ last.op = "write"
    /\ last.transport.definition = 1
    /\ Len(last.transport.decoration) = 2
    /\ last.transport.decoration[1].decorator # last.transport.decoration[2].decorator
    /\ Len(last.forwarded) = 1

\* C3: decorate throws, and returns no class, when the transport class has
\* no identifier or an empty one, and when no decoration is stored for its
\* identifier.
C3_DecorateNeedsDecoration ==
    last.op = "decorate" =>
        LET identifier == IdentifierOf(last.streamConstructor) IN
        (identifier \in {Undefined, EmptyString} \/ identifier \notin DOMAIN decorations)
            => (last.error # NoError /\ last.returned = <<>>)

\* C4: write(message, options) of a class the first definition's decorate
\* returned hands the original write the decoration's result for (message,
\* options) and the options exactly as the caller gave them.
C4_WriteForwardsDecorated ==
    (last.op = "write" /\ last.transport.definition = 1) =>
        /\ last.error = NoError
        /\ last.forwarded =
              <<[message |-> decorateMessage(last.transport.decoration, decorators,
                                             last.message, last.options).message,
                 options |-> last.options]>>

\* A write without options went through a decoration of at least one rule.
C4_Witness ==
    /\ last.op = "write"
    /\ last.transport.definition = 1
    /\ last.options = Undefined
    /\ Len(last.transport.decoration) >= 1
    /\ Len(last.forwarded) = 1
    /\ last.forwarded[1].message # last.message

\* The first rule of an array that names no plugin stored in decs, 0 when
\* every rule names one
FirstInvalidRule(ruleArray, decs) ==
    LET invalid == {j \in 1..Len(ruleArray) : ruleArray[j].decorator \notin DOMAIN decs}
    IN IF invalid = {} THEN 0 ELSE CHOOSE j \in invalid : \A i \in invalid : j <= i

\* C5: a loadRules call that reaches an identifier whose value is not an
\* array, or whose array has a rule naming no stored plugin, throws there;
\* the error names the identifier and, when the first such rule has a
\* decorator name, that name; an identifier that had no decoration and no
\* rules before the call has none after it.
C5_RulesRejected ==
    [][ last'.op = "loadRules" =>
          \A k \in 1..Len(last'.config) :
            LET identifier == last'.config[k].identifier
                value == last'.config[k].rules
                j == FirstInvalidRule(value.items, decorators)
            IN
            ((~value.isArray \/ j # 0) /\ (last'.at = 0 \/ last'.at >= k)) =>
              /\ last'.at = k
              /\ last'.error # NoError
              /\ identifier \in last'.error.names
              /\ (value.isArray /\ value.items[j].decorator # Undefined) =>
                    value.items[j].decorator \in last'.error.names
              /\ identifier \notin DOMAIN decorations =>
                    identifier \notin DOMAIN decorations'
              /\ identifier \notin DOMAIN rules => identifier \notin DOMAIN rules'
      ]_vars

\* loadRules threw on the second rule of an array, which names a plugin not
\* loaded, for an identifier with no decoration.
C5_Witness ==
    /\ last.op = "loadRules"
    /\ last.at = 1
    /\ Len(last.config[1].rules.items) = 2
    /\ last.config[1].rules.items[1].decorator \in DOMAIN decorators
    /\ last.config[1].rules.items[2].decorator \in Names \ DOMAIN decorators
    /\ last.error.names
          = {last.config[1].identifier, last.config[1].rules.items[2].decorator}
    /\ last.config[1].identifier \notin DOMAIN decorations

\* Whether the call just made is a loadRules call naming the identifier
ReloadsRules(call, identifier) ==
    /\ call.op = "loadRules"
    /\ \E k \in 1..Len(call.config) : call.config[k].identifier = identifier

C7_WriteOnce ==
    last.op = "write" =>
        /\ last.error = NoError
        /\ Len(last.forwarded) = 1
        /\ LET fns == last.transport.decoration
               applied == last.forwarded[1].message.applied
           IN /\ Len(applied) = Len(fns)
              /\ \A i \in 1..Len(fns) :
                    applied[i].plugin = getDecorator(decorators, fns[i].decorator)

\* A write went through a decoration that has the same rule twice.
C7_Witness ==
    /\ last.op = "write"
    /\ last.transport.definition = 1
    /\ Len(last.transport.decoration) = 2
    /\ last.transport.decoration[1] = last.transport.decoration[2]
    /\ Len(last.forwarded) = 1

\* C8: when loadDecorators stores an entry under a name that already had an
\* instance, the name then holds the instance this call created, and the
\* earlier instance is stored under no name.
C8_SecondInstanceWins ==
    [][ last'.op = "loadDecorators" =>
          \A k \in Processed(last') :
            LET name == last'.config[k].name IN
            name \in DOMAIN decorators =>
              /\ getDecorator(decorators', name) = Len(instances) + k
              /\ getDecorator(decorators', name) # decorators[name]
              /\ \A n \in DOMAIN decorators' : decorators'[n] # decorators[name]
      ]_vars

\* A name was loaded twice and holds the later instance.
C8_Witness ==
    /\ last.op = "loadDecorators"
    /\ last.error = NoError
    /\ \E i, j \in 1..Len(instances) :
         /\ i < j
         /\ instances[i].name = instances[j].name
         /\ getDecorator(decorators, instances[j].name) = j
         /\ \E k \in 1..Len(last.config) : last.config[k].name = instances[j].name

\* C9: a loadDecorators call that reaches an entry with no 'require', with a
\* 'require' that is no string, or whose instance lacks decorate or
\* configure, throws there; nothing is stored under that entry's name by the
\* call, the instance it made is not configured, and no later entry of the
\* call is instantiated, configured or stored.
C9_BadEntryAborts ==
    [][ last'.op = "loadDecorators" =>
          \A k \in 1..Len(last'.config) :
            LET name == last'.config[k].name IN
            (last'.config[k].settings.require \in BadRequires
                /\ (last'.at = 0 \/ last'.at >= k)) =>
              /\ last'.at = k
              /\ last'.error # NoError
              /\ name \in last'.error.names
              /\ getDecorator(decorators', name) = getDecorator(decorators, name)
              /\ \A d \in 1..Len(last'.discarded) : last'.discarded[d].configured = <<>>
              /\ Len(instances') = Len(instances) + (k - 1)
              /\ \A j \in (k + 1)..Len(last'.config) :
                    getDecorator(decorators', last'.config[j].name)
                      = getDecorator(decorators, last'.config[j].name)
      ]_vars

\* loadDecorators threw on its first entry, whose instance lacks a method,
\* and a well-formed entry followed it.
C9_Witness ==
    /\ last.op = "loadDecorators"
    /\ last.at = 1
    /\ Len(last.config) = 2
    /\ Len(last.discarded) = 1
    /\ last.config[2].settings.require \in GoodRequires
    /\ last.config[2].name \notin DOMAIN decorators

\* C10: when loadDecorators throws at entry k, the entries before k are
\* stored and configured; when loadRules throws at entry k, the identifiers
\* before k hold the rule arrays and the decorations of this call.
C10_NoRollback ==
    [][ /\ (last'.op = "loadDecorators" /\ last'.at > 0) =>
              \A j \in 1..(last'.at - 1) :
                LET entry == last'.config[j] IN
                /\ getDecorator(decorators', entry.name) = Len(instances) + j
                /\ instances'[Len(instances) + j].name = entry.name
                /\ instances'[Len(instances) + j].configured
                      = <<ExpectedPluginConfig(entry)>>
        /\ (last'.op = "loadRules" /\ last'.at > 0) =>
              \A j \in 1..(last'.at - 1) :
                LET entry == last'.config[j] IN
                /\ entry.identifier \in DOMAIN rules'
                /\ rules'[entry.identifier] = entry.rules.items
                /\ entry.identifier \in DOMAIN decorations'
                /\ Len(decorations'[entry.identifier]) = Len(entry.rules.items)
                /\ \A i \in 1..Len(entry.rules.items) :
                      /\ decorations'[entry.identifier][i].decorator
                            = entry.rules.items[i].decorator
                      /\ decorations'[entry.identifier][i].config
                            = entry.rules.items[i].config
      ]_vars

\* loadRules threw at its second identifier after storing one rule for the
\* first.
C10_Witness ==
    /\ last.op = "loadRules"
    /\ last.at = 2
    /\ Len(last.config[1].rules.items) = 1
    /\ last.config[1].identifier \in DOMAIN decorations
    /\ rules[last.config[1].identifier] = last.config[1].rules.items
    /\ last.config[2].identifier \notin DOMAIN decorations

\* C11: a write on a wrapped class makes its calls after every call of the
\* writes before it, which stay as they were: its decorate calls, one for
\* each function the class keeps, in their order, and then the original
\* write once, with the decoration's result for this write's message.  No
\* other operation makes a call.
C11_WritesInCallOrder ==
    [][ /\ last'.op # "write" => observed' = observed
        /\ (last'.op = "write" /\ last'.streamConstructor \in ObservedClasses) =>
              LET fns == last'.transport.decoration
                  n == Len(observed)
                  decorated == IF last'.transport.definition = 1
                               THEN decorateMessage(fns, decorators, last'.message,
                                                    last'.options).message
                               ELSE ReduceFrom(fns, 1, decorators, last'.message,
                                               Undefined).message
              IN /\ Len(observed') = n + Len(fns) + 1
                 /\ \A i \in 1..n : observed'[i] = observed[i]
                 /\ \A i \in 1..Len(fns) :
                      /\ observed'[n + i].kind = "decorate"
                      /\ observed'[n + i].raw = last'.message.raw
                      /\ observed'[n + i].call.plugin
                            = getDecorator(decorators, fns[i].decorator)
                 /\ observed'[n + Len(fns) + 1]
                      = SuperWriteCall(decorated, last'.options)
      ]_vars

\* Two writes with different messages went through a decoration of two
\* rules, and the second message's calls follow the first's.
C11_Witness ==
    /\ last.op = "write"
    /\ Len(last.transport.decoration) = 2
    /\ Len(observed) = 6
    /\ observed[3].kind = "write"
    /\ observed[6].kind = "write"
    /\ observed[3].message.raw # observed[6].message.raw
    /\ observed[4].raw = observed[6].message.raw

\* C12: decorate, whether it returns or throws, getDecorator, getRules,
\* getDecoration and a write on a wrapped class leave the decorators, rules
\* and decorations maps, and the plugin instances, as they were.
C12_OperationalCallsReadOnly ==
    [][ last'.op \in {"decorate", "write", "getDecorator", "getRules", "getDecoration"} =>
          /\ decorators' = decorators
          /\ rules' = rules
          /\ decorations' = decorations
          /\ instances' = instances
      ]_vars

\* getRules was called for an identifier without rules on a registry that
\* holds plugins, rules and a wrapped class that has been written to.
C12_Witness ==
    /\ last.op = "getRules"
    /\ last.identifier \notin DOMAIN rules
    /\ last.returned = <<>>
    /\ DOMAIN decorators = Names
    /\ "memory" \in DOMAIN rules
    /\ "Memory" \in DOMAIN wrapped
    /\ Writes(observed) >= 1

\* C13: a new registry has no rules; a loadRules call leaves, for each
\* identifier it got through, the array given for it, and leaves the rules
\* of every other identifier, the one it threw at included, as they were;
\* no other call changes what getRules gives.  getRules returns the stored
\* array, the empty array for an identifier that has none, and getDecoration
\* returns undefined for such an identifier.
C13_GetRulesMostRecent ==
    /\ \A identifier \in Identifiers :
          getRules(rules, identifier) = <<>> /\ getDecoration(decorations, identifier) = <<>>
    /\ [][ \A identifier \in Identifiers :
             IF last'.op = "loadRules"
                  /\ \E k \in Processed(last') : last'.config[k].identifier = identifier
             THEN \A k \in Processed(last') :
                     last'.config[k].identifier = identifier =>
                        getRules(rules', identifier) = last'.config[k].rules.items
             ELSE getRules(rules', identifier) = getRules(rules, identifier)
         ]_vars
    /\ [](/\ last.op = "getRules" =>
               /\ last.returned = getRules(rules, last.identifier)
               /\ last.identifier \notin DOMAIN rules => last.returned = <<>>
          /\ (last.op = "getDecoration" /\ last.identifier \notin DOMAIN rules) =>
               last.returned = <<>>)

\* getRules returned a stored array of two rules while the other identifier
\* has none.
C13_Witness ==
    /\ last.op = "getRules"
    /\ last.identifier = "console"
    /\ Len(last.returned) = 2
    /\ last.returned[1].decorator # last.returned[2].decorator
    /\ "file" \notin DOMAIN rules

\* C14: a loadRules call that throws at an identifier, its value being no
\* array or holding a rule without a decorator name or naming no stored
\* plugin, leaves that identifier's rules and decoration as the call found
\* them: absent if absent, the earlier array and decoration otherwise.
C14_ValidateBeforeStore ==
    [][ (last'.op = "loadRules" /\ last'.at > 0) =>
          LET identifier == last'.config[last'.at].identifier IN
          /\ last'.error # NoError
          /\ identifier \in DOMAIN rules' <=> identifier \in DOMAIN rules
          /\ identifier \in DOMAIN rules => rules'[identifier] = rules[identifier]
          /\ identifier \in DOMAIN decorations' <=> identifier \in DOMAIN decorations
          /\ identifier \in DOMAIN decorations =>
                decorations'[identifier] = decorations[identifier]
      ]_vars

\* loadRules threw on the second rule of an array, the first being valid,
\* for an identifier that keeps the different array stored before.
C14_Witness ==
    /\ last.op = "loadRules"
    /\ last.at = 1
    /\ Len(last.config[1].rules.items) = 2
    /\ last.config[1].rules.items[1].decorator \in DOMAIN decorators
    /\ last.config[1].rules.items[2].decorator \notin DOMAIN decorators
    /\ last.config[1].identifier \in DOMAIN rules
    /\ Len(rules[last.config[1].identifier]) = 1
    /\ Len(decorations[last.config[1].identifier]) = 1

\* C15: when a write runs a compiled decoration, the i-th decorate call is
\* made on the message as the calls before it left it, with the config of
\* the i-th rule, {} when that rule has none, and with the options the
\* decoration was called with, {} when it was called without options: the
\* same options for every step.
C15_StepArguments ==
    (last.op = "write" /\ last.transport.definition = 1) =>
        LET fns == last.transport.decoration
            callOptions == IF last.options = Undefined THEN EmptyObject ELSE last.options
        IN /\ Len(last.forwarded) = 1
           /\ last.forwarded[1].message.raw = last.message.raw
           /\ last.forwarded[1].message.applied =
                 [i \in 1..Len(fns) |->
                     [plugin |-> getDecorator(decorators, fns[i].decorator),
                      config |-> ExpectedRuleConfig(fns[i]),
                      options |-> callOptions]]

\* A write without options ran a decoration of two rules, one with a config
\* and one without.
C15_Witness ==
    /\ last.op = "write"
    /\ last.transport.definition = 1
    /\ last.options = Undefined
    /\ Len(last.transport.decoration) = 2
    /\ last.transport.decoration[1].config # last.transport.decoration[2].config
    /\ Len(last.forwarded) = 1
    /\ Len(last.forwarded[1].message.applied) = 2

\* C16: every rule of every stored rule array, and every function of every
\* stored decoration and of every wrapped class, names a plugin the
\* decorators map holds; a write never fails looking a plugin up.
C16_RulesNameStoredPlugins ==
    /\ \A identifier \in DOMAIN rules :
          \A i \in 1..Len(rules[identifier]) :
             rules[identifier][i].decorator \in DOMAIN decorators
    /\ \A identifier \in DOMAIN decorations :
          \A i \in 1..Len(decorations[identifier]) :
             getDecorator(decorators, decorations[identifier][i].decorator) # 0
    /\ \A streamConstructor \in DOMAIN wrapped :
          \A i \in 1..Len(wrapped[streamConstructor].decoration) :
             getDecorator(decorators, wrapped[streamConstructor].decoration[i].decorator) # 0
    /\ last.op = "write" => last.error = NoError

\* A loadDecorators call threw at "trim" after storing "upper"; rules that
\* name "upper" are stored and a write has run them.
C16_Witness ==
    /\ DOMAIN decorators = {"upper"}
    /\ Len(instances) = 1
    /\ "memory" \in DOMAIN rules
    /\ Len(rules["memory"]) = 1
    /\ last.op = "write"
    /\ Len(last.transport.decoration) = 1
    /\ last.error = NoError

\* C17: the identifiers that have a decoration are the identifiers that have
\* rules, and the decoration of each has one function for each of its rules,
\* in order, with that rule's decorator name and config.
C17_DecorationsMatchRules ==
    /\ DOMAIN decorations = DOMAIN rules
    /\ \A identifier \in DOMAIN rules :
          /\ Len(decorations[identifier]) = Len(rules[identifier])
          /\ \A i \in 1..Len(rules[identifier]) :
                /\ decorations[identifier][i].decorator = rules[identifier][i].decorator
                /\ decorations[identifier][i].config = rules[identifier][i].config

\* Both identifiers hold rules, the console transport two naming different
\* plugins, after a loadRules call that threw.
C17_Witness ==
    /\ DOMAIN rules = Identifiers
    /\ Len(rules["console"]) = 2
    /\ rules["console"][1].decorator # rules["console"][2].decorator
    /\ Len(rules["file"]) = 1
    /\ last.op = "loadRules"
    /\ last.error # NoError

\* C18: a class returned by decorate keeps the decoration stored for its
\* identifier at that call (the functions mapped from the rules stored at
\* that call, for the second definition); no later call but another decorate
\* for the same transport class changes what was returned, and a write runs
\* the functions the class keeps, whatever the registry holds by then.
C18_DecorationKeptAtWrap ==
    [][ /\ last'.op # "decorate" => wrapped' = wrapped
        /\ (last'.op = "decorate" /\ last'.error = NoError) =>
              LET streamConstructor == last'.streamConstructor
                  identifier == IdentifierOf(streamConstructor)
              IN /\ \A c \in DOMAIN wrapped \ {streamConstructor} :
                       c \in DOMAIN wrapped' /\ wrapped'[c] = wrapped[c]
                 /\ wrapped'[streamConstructor].decoration
                       = IF last'.definition = 1
                         THEN decorations[identifier]
                         ELSE decoratorFunctions(getRules(rules, identifier))
        /\ last'.op = "write" =>
              LET fns == wrapped[last'.streamConstructor].decoration IN
              /\ Len(last'.forwarded) = 1
              /\ Len(last'.forwarded[1].message.applied) = Len(fns)
              /\ \A i \in 1..Len(fns) :
                    /\ last'.forwarded[1].message.applied[i].plugin
                          = getDecorator(decorators, fns[i].decorator)
                    /\ last'.forwarded[1].message.applied[i].config
                          = ExpectedRuleConfig(fns[i])
      ]_vars

\* A write ran the two rules its class kept while the registry holds, for
\* the same identifier, a single rule loaded after the class was returned.
C18_Witness ==
    /\ last.op = "write"
    /\ last.transport.definition = 1
    /\ IdentifierOf(last.streamConstructor) \in DOMAIN decorations
    /\ Len(last.transport.decoration) = 2
    /\ Len(decorations[IdentifierOf(last.streamConstructor)]) = 1
    /\ Len(last.forwarded) = 1
    /\ Len(last.forwarded[1].message.applied) = 2

\* C19: loadRules given the empty array for an identifier stores it and a
\* decoration of no function; decorate of a transport class with that
\* identifier then returns a class, and a write on a class that keeps no
\* function hands the original write the message and the options as write
\* got them, no plugin having been called.
C19_EmptyRulesIdentity ==
    /\ [][ last'.op = "loadRules" =>
             \A k \in Processed(last') :
               last'.config[k].rules.items = <<>> =>
                 /\ getRules(rules', last'.config[k].identifier) = <<>>
                 /\ getDecoration(decorations', last'.config[k].identifier) = << <<>> >>
         ]_vars
    /\ [](/\ (/\ last.op = "decorate"
              /\ last.definition = 1
              /\ getDecoration(decorations, IdentifierOf(last.streamConstructor)) = << <<>> >>)
                => /\ last.error = NoError
                   /\ Len(last.returned) = 1
                   /\ last.returned[1].decoration = <<>>
          /\ (last.op = "write" /\ last.transport.decoration = <<>>) =>
                /\ last.error = NoError
                /\ last.forwarded = <<[message |-> last.message, options |-> last.options]>>
                /\ last.forwarded[1].message.applied = <<>>)

\* A write went through a class the first definition's decorate returned
\* for an identifier loaded with the empty array, plugins being stored.
C19_Witness ==
    /\ last.op = "write"
    /\ last.transport.definition = 1
    /\ last.transport.decoration = <<>>
    /\ getRules(rules, last.transport.identifier) = <<>>
    /\ getDecoration(decorations, last.transport.identifier) = << <<>> >>
    /\ decorators # EmptyMap
    /\ last.forwarded = <<[message |-> last.message, options |-> last.options]>>

====
